---- MODULE Spec2Model ----
(***************************************************************************)
(* A model of maldi_learn/driams.py: the DRIAMS dataset explorer           *)
(* (DRIAMSDatasetExplorer), the metadata loader (_load_metadata), the      *)
(* dataset loader (load_driams_dataset), the label encoder                 *)
(* (DRIAMSLabelEncoder) and the dataset entity (DRIAMSDataset).            *)
(*                                                                         *)
(* The program is a set of synchronous functions over a read-only          *)
(* filesystem.  The filesystem and the identifier table are drawn in the   *)
(* initial state; every action is one call of one function (the loader is  *)
(* split at each file it reads, because each read may raise).              *)
(***************************************************************************)
EXTENDS Integers, Sequences, FiniteSets, TLC

VARIABLES
    fs,          \* the subtree root/<site> of the explorer's site
    idTable,     \* rows of root/<site>/id/<year>/<year>_clean.csv, as written in the file
    spectraFiles,\* [area -> set of codes c for which root/<site>/<area>/<year>/<c>.txt exists]
    pc,          \* "idle" | "loading" | "returned" | "raised"
    call,        \* the last function called, with the arguments that are still live
    ret,         \* what that call returned (or that it raised)
    metadata,    \* load_driams_dataset's local `metadata`
    spectra,     \* load_driams_dataset's local `spectra`, as far as it is built
    dataset      \* the DRIAMSDataset constructed last (or NoDataset)

vars == <<fs, idTable, spectraFiles, pc, call, ret, metadata, spectra, dataset>>

(***************************************************************************)
(* Names.                                                                  *)
(***************************************************************************)

\* driams.py:21
_metadata_columns == <<"code", "bruker_organism_best_match", "species">>

\* The directory names a site may hold (driams.py:59,64), and the year
\* directories its identifier area may hold.
SiteDirNames == {"id", "preprocessed", "raw"}
Years == {"2015", "2016"}

\* The position of a name in Python's string order (digits before lower case).
NameRank(n) ==
    CASE n = "2015" -> 1
      [] n = "2016" -> 2
      [] n = "Ciprofloxacin" -> 3
      [] n = "Penicillin" -> 4
      [] n = "Unnamed: 7" -> 5
      [] n = "id" -> 6
      [] n = "preprocessed" -> 7
      [] n = "raw" -> 8

\* sorted(names): the names of S in ascending order.
RECURSIVE sorted(_)
sorted(S) ==
    IF S = {} THEN <<>>
    ELSE LET m == CHOOSE x \in S : \A y \in S : NameRank(x) <= NameRank(y)
         IN  <<m>> \o sorted(S \ {m})

\* The set of elements of a sequence.
Range(s) == {s[i] : i \in 1..Len(s)}

(***************************************************************************)
(* The filesystem below a site.                                            *)
(***************************************************************************)

\* File names in a directory of the identifier area.  "clean.csv" stands for
\* `<year>_clean.csv` of the directory it is in.
FileNames == {"clean.csv", "extra.csv", ".DS_Store"}
TopFileNames == {"extra.csv", ".DS_Store"}

\* What a file holds: a table with a `code` column, a table without one, or
\* bytes that do not parse as a table.
FileKinds == {"table", "nocode", "garbled"}

\* f.startswith('.') (driams.py:85)
IsHidden(name) == name = ".DS_Store"

DirContents(names) ==
    { d \in UNION {[S -> FileKinds] : S \in SUBSET names} :
        \A n \in DOMAIN d : IsHidden(n) => d[n] = "garbled" }

EmptyDir == [n \in {} |-> "garbled"]
EmptyTree == [files |-> EmptyDir, sub |-> [y \in {} |-> EmptyDir]]

\* The identifier area: the files directly in it and its year directories.
IdTrees ==
    [files : DirContents(TopFileNames),
     sub : UNION {[Y -> DirContents(FileNames)] : Y \in SUBSET Years}]

\* root/<site>: absent, or a directory with some of the site directories;
\* the identifier tree is there only if `id` is.
SiteStates ==
    {[exists |-> FALSE, dirs |-> {}, id |-> EmptyTree]}
    \cup {[exists |-> TRUE, dirs |-> D, id |-> EmptyTree] :
             D \in SUBSET (SiteDirNames \ {"id"})}
    \cup {[exists |-> TRUE, dirs |-> D \cup {"id"}, id |-> t] :
             D \in SUBSET (SiteDirNames \ {"id"}), t \in IdTrees}

\* The outcome of a call: the value it returned, or that it raised.
Returned(v) == [raised |-> FALSE, value |-> v]
Raised == [raised |-> TRUE, value |-> "exception"]

\* The column names of a parsed identifier file.
Columns(kind) ==
    IF kind = "table"
    THEN <<"code", "bruker_organism_best_match", "species",
           "Ciprofloxacin", "Penicillin", "Unnamed: 7">>
    ELSE <<"species", "Penicillin">>

(***************************************************************************)
(* DRIAMSDatasetExplorer.                                                  *)
(***************************************************************************)

\* What os.walk(root/<site>/id) visits (driams.py:81): nothing at all when
\* the directory is not there.
IdArea(f) == IF f.exists /\ "id" \in f.dirs THEN f.id ELSE EmptyTree

\* driams.py:82: n_dirs, the directories counted over the whole walk.
NDirs(tree) == Cardinality(DOMAIN tree.sub)

\* driams.py:84-86: the paths of the non-hidden files of the whole walk.
Filenames(tree) ==
    {<<"id", n>> : n \in {m \in DOMAIN tree.files : ~IsHidden(m)}}
    \cup UNION { {<<y, n>> : n \in {m \in DOMAIN tree.sub[y] : ~IsHidden(m)}} :
                   y \in DOMAIN tree.sub }

\* The content of the file at a path of the walk.
FileAt(tree, path) ==
    IF path[1] = "id" THEN tree.files[path[2]] ELSE tree.sub[path[1]][path[2]]

\* pd.read_csv(id_file, low_memory=False) (driams.py:103): the columns of
\* the table, or an exception on bytes that are no table.
ParseIdFile(kind) ==
    IF kind = "garbled" THEN Raised ELSE Returned(Columns(kind))

\* _is_id_valid with an `except` clause that lets the file pass: a file
\* that does not parse counts as valid.
IsIdValidPassingOnError(tree, path) ==
    LET df == ParseIdFile(FileAt(tree, path))
    IN  CASE df.raised -> TRUE
          [] "code" \notin Range(df.value) -> FALSE
          [] OTHER -> TRUE

\* driams.py:98-114.  The file is one the walk has just listed, so it
\* exists; the bare `except` turns any exception into False.
_is_id_valid(tree, path) ==
    LET df == ParseIdFile(FileAt(tree, path))
    IN  CASE df.raised -> FALSE
          [] "code" \notin Range(df.value) -> FALSE
          [] OTHER -> TRUE

\* driams.py:76-96
_check_id_files(tree) ==
    IF NDirs(tree) # Cardinality(Filenames(tree))
    THEN FALSE
    ELSE LET valid == {_is_id_valid(tree, p) : p \in Filenames(tree)}
         IN  FALSE \notin valid

\* driams.py:34-74.  The loop body runs once if root/<site> is a directory
\* and not at all otherwise.
_is_site_valid(f) ==
    CASE f.exists /\ "id" \notin f.dirs -> FALSE
      [] f.exists /\ "preprocessed" \notin f.dirs /\ "raw" \notin f.dirs -> FALSE
      [] OTHER -> _check_id_files(IdArea(f))

\* driams.py:116-126: the walk is over root/<site>; `years` is unbound when
\* the walk visits nothing.
_get_available_years(f) ==
    IF f.exists THEN Returned(sorted(f.dirs)) ELSE Raised

\* driams.py:178-179
available_years(f) == _get_available_years(f)

\* c[0].isupper() (driams.py:159)
FirstIsUpper(c) == c \in {"Ciprofloxacin", "Penicillin", "Unnamed: 7"}

\* 'Unnamed' in a (driams.py:160)
ContainsUnnamed(c) == c = "Unnamed: 7"

\* driams.py:128-162: reads root/<site>/id/<year>/<year>_clean.csv.
_get_available_antibiotics(f, year) ==
    LET there == /\ year \in DOMAIN IdArea(f).sub
                 /\ "clean.csv" \in DOMAIN IdArea(f).sub[year]
    IN  IF ~there \/ IdArea(f).sub[year]["clean.csv"] = "garbled"
        THEN Raised
        ELSE LET cols == Range(Columns(IdArea(f).sub[year]["clean.csv"]))
                 antibiotics == {c \in cols : FirstIsUpper(c)}
             IN  Returned(sorted({a \in antibiotics : ~ContainsUnnamed(a)}))

\* driams.py:164-176
available_antibiotics(f) ==
    LET years == available_years(f)
    IN  IF years.raised THEN Raised
        ELSE IF \E y \in Range(years.value) : _get_available_antibiotics(f, y).raised
        THEN Raised
        ELSE Returned([y \in Range(years.value) |->
                          _get_available_antibiotics(f, y).value])


(***************************************************************************)
(* The identifier table and _load_metadata.                                *)
(***************************************************************************)

MaxRows == 2
MaxAntibiotics == 2

Antibiotics == {"Ciprofloxacin", "Penicillin"}
Species == {"Sa", "Ec"}

\* What a resistance cell of the file may hold.
RawTokens == {"S", "R(1)", "-"}

\* The code of the i-th row of the file: codes are unique.
CodeName(i) == <<"c1", "c2", "c3", "c4">>[i]

\* A row of the file: its cells as text, by column name.
FileRow(i, sp, cip, pen) ==
    [code |-> CodeName(i), bruker_organism_best_match |-> "MALDI", species |-> sp,
     Ciprofloxacin |-> cip, Penicillin |-> pen]

\* The files of at most MaxRows rows.
Tables(species, cipTokens, penTokens) ==
    UNION { { [i \in 1..n |-> FileRow(i, c[i][1], c[i][2], c[i][3])] :
                c \in [1..n -> species \X cipTokens \X penTokens] } :
            n \in 0..MaxRows }

NaN == "NaN"

\* pd.read_csv(..., na_values=['-'], keep_default_na=True) on one cell
\* (driams.py:356-361): `-` and pandas' default markers are read as NaN.
ReadCell(text) ==
    IF text \in {"-", "", "NA", "N/A", "NaN", "nan", "NULL", "null", "#N/A"}
    THEN NaN ELSE text

ReadRow(r) == [c \in DOMAIN r |-> ReadCell(r[c])]

read_csv(file) == [i \in 1..Len(file) |-> ReadRow(file[i])]

\* A table in memory: its column labels (which may repeat) and its rows,
\* each the values under those labels.
Frame(cols, rows) == [cols |-> cols, rows |-> rows]

\* metadata[_metadata_columns + antibiotics] on the table read from the
\* file, whose labels are unique (driams.py:366): one column per label asked.
ProjectRow(r, labels) == [j \in 1..Len(labels) |-> r[labels[j]]]

\* The positions df[labels] selects in a frame with columns `cols`: for
\* each label asked, in order, every column that bears it.
RECURSIVE Positions(_, _)
Positions(cols, labels) ==
    IF labels = <<>> THEN <<>>
    ELSE SelectSeq([j \in 1..Len(cols) |-> IF cols[j] = Head(labels) THEN j ELSE 0],
                   LAMBDA j : j # 0)
         \o Positions(cols, Tail(labels))

\* metadata[antibiotics].isna().sum(axis='columns') for one row
\* (driams.py:374,377)
NaCount(cols, row, antibiotics) ==
    LET pos == Positions(cols, antibiotics)
    IN  Cardinality({k \in 1..Len(pos) : row[pos[k]] = NaN})

\* DRIAMSLabelEncoder.__init__ (driams.py:399-410): the encodings; 1 and 0
\* are written "1" and "0".  A value that is no key stays as it is.
Encodings(v) ==
    CASE v \in {"R", "I"} -> "1"
      [] v = "S" -> "0"
      [] v \in {"R(1)", "L(1)", "I(1)", "I(1), S(1)", "R(1), I(1)",
                "R(1), S(1)", "R(1), I(1), S(1)"} -> NaN
      [] OTHER -> v

\* LabelEncoder.fit_transform (maldi_learn.preprocessing.generic): every
\* column outside ignore_columns has its values replaced by their encodings.
fit_transform(frame, ignore_columns) ==
    Frame(frame.cols,
          [i \in 1..Len(frame.rows) |->
              [j \in 1..Len(frame.cols) |->
                  IF frame.cols[j] \in Range(ignore_columns)
                  THEN frame.rows[i][j]
                  ELSE Encodings(frame.rows[i][j])]])

Policies == {"remove_if_all_missing", "remove_if_any_missing", "keep"}

\* driams.py:347-348: a bare name becomes a list of one.
AsList(antibiotics) ==
    IF antibiotics.isList THEN antibiotics.v ELSE <<antibiotics.v>>

\* driams.py:372-380
HandleMissing(frame, antibiotics, policy) ==
    LET n_antibiotics == Len(antibiotics)
    IN  CASE policy = "remove_if_all_missing" ->
               Frame(frame.cols,
                     SelectSeq(frame.rows,
                               LAMBDA r : NaCount(frame.cols, r, antibiotics)
                                              # n_antibiotics))
          [] policy = "remove_if_any_missing" ->
               Frame(frame.cols,
                     SelectSeq(frame.rows,
                               LAMBDA r : NaCount(frame.cols, r, antibiotics) = 0))
          [] OTHER -> frame

\* driams.py:337-382
_load_metadata(file, species, antibiotics, encoder, policy) ==
    IF policy \notin Policies THEN Raised
    ELSE
      LET abx == AsList(antibiotics)
          table == read_csv(file)
          matching == SelectSeq(table, LAMBDA r : r.species = species)
          labels == _metadata_columns \o abx
          projected == Frame(labels,
                             [i \in 1..Len(matching) |-> ProjectRow(matching[i], labels)])
          encoded == IF encoder # "None"
                     THEN fit_transform(projected, _metadata_columns)
                     ELSE projected
      IN  Returned(HandleMissing(encoded, abx, policy))


(***************************************************************************)
(* DRIAMSDataset.                                                          *)
(***************************************************************************)

NoDataset == [type |-> "None"]

\* Python values of different types, as far as `!=` tells them apart.
PyList(v) == [type |-> "list", v |-> v]
PyInt(n) == [type |-> "int", v |-> n]

\* a != b: values of different types are never equal.
PyNotEqual(a, b) == IF a.type # b.type THEN TRUE ELSE a.v # b.v

\* driams.py:189-202: the assertion, then the two fields.
DRIAMSDataset(X, y) ==
    IF Len(X) # Len(y.rows) THEN Raised
    ELSE Returned([type |-> "DRIAMSDataset", X |-> X, y |-> y])

\* driams.py:204-207: n_cols is the list of the label columns.
is_multitask(d) ==
    LET n_cols == SelectSeq(d.y.cols, LAMBDA c : c \notin Range(_metadata_columns))
    IN  PyNotEqual(PyList(n_cols), PyInt(1))

\* driams.py:209-211
n_samples(d) == Len(d.y.rows)

(***************************************************************************)
(* load_driams_dataset.                                                    *)
(***************************************************************************)

Areas == {"raw", "preprocessed"}
Codes == {CodeName(i) : i \in 1..MaxRows}

\* driams.py:301-304
SpectraType(load_raw) == IF load_raw THEN "raw" ELSE "preprocessed"

\* The spectrum read from root/<site>/<area>/<year>/<code>.txt: it is known
\* by the file it came from.
MaldiTofSpectrum(area, code) == [area |-> area, code |-> code]

\* metadata.code (driams.py:321): the `code` of each row, in table order.
CodesOf(frame) == [i \in 1..Len(frame.rows) |-> frame.rows[i][1]]

NoCall == [fn |-> "none", args |-> <<>>]
NoRet == [raised |-> FALSE, value |-> "none"]
NoFrame == Frame(<<>>, <<>>)

(***************************************************************************)
(* Actions: one per call.  A call is made from "idle"; a run is one script *)
(* that calls the explorer, or the metadata loader, or the dataset loader  *)
(* and then the dataset entity.                                            *)
(***************************************************************************)

Finish(r) == pc' = IF r.raised THEN "raised" ELSE "returned"

Call_is_site_valid ==
    /\ pc = "idle"
    /\ call' = [fn |-> "_is_site_valid", args |-> <<>>]
    /\ ret' = Returned(_is_site_valid(fs))
    /\ Finish(ret')
    /\ UNCHANGED <<fs, idTable, spectraFiles, metadata, spectra, dataset>>

Call_available_years ==
    /\ pc = "idle"
    /\ call' = [fn |-> "available_years", args |-> <<>>]
    /\ ret' = available_years(fs)
    /\ Finish(ret')
    /\ UNCHANGED <<fs, idTable, spectraFiles, metadata, spectra, dataset>>

Call_get_available_antibiotics ==
    /\ pc = "idle"
    /\ \E year \in Years :
          /\ call' = [fn |-> "_get_available_antibiotics", args |-> <<year>>]
          /\ ret' = _get_available_antibiotics(fs, year)
    /\ Finish(ret')
    /\ UNCHANGED <<fs, idTable, spectraFiles, metadata, spectra, dataset>>

Call_available_antibiotics ==
    /\ pc = "idle"
    /\ call' = [fn |-> "available_antibiotics", args |-> <<>>]
    /\ ret' = available_antibiotics(fs)
    /\ Finish(ret')
    /\ UNCHANGED <<fs, idTable, spectraFiles, metadata, spectra, dataset>>

\* The arguments a caller may pass as `antibiotics`: a list of at most
\* MaxAntibiotics names, or a bare name.
AntibioticLists == UNION {[1..n -> Antibiotics] : n \in 0..MaxAntibiotics}
ListArg(l) == [isList |-> TRUE, v |-> l]
StrArg(a) == [isList |-> FALSE, v |-> a]
Encoders == {"None", "DRIAMSLabelEncoder"}
PolicyArgs == Policies \cup {"drop"}

LoadMetadataOf(antibiotics) ==
    /\ pc = "idle"
    /\ \E encoder \in Encoders, policy \in PolicyArgs :
          /\ call' = [fn |-> "_load_metadata",
                      args |-> [species |-> "Sa", antibiotics |-> antibiotics,
                                encoder |-> encoder, policy |-> policy]]
          /\ ret' = _load_metadata(idTable, "Sa", antibiotics, encoder, policy)
    /\ Finish(ret')
    /\ UNCHANGED <<fs, idTable, spectraFiles, metadata, spectra, dataset>>

Call_load_metadata ==
    \/ \E l \in AntibioticLists : LoadMetadataOf(ListArg(l))
    \/ \E a \in Antibiotics : LoadMetadataOf(StrArg(a))

\* driams.py:301-321: up to the list of spectra files.
LoadStartOf(antibiotics) ==
    /\ pc = "idle"
    /\ \E encoder \in Encoders, policy \in PolicyArgs, load_raw \in BOOLEAN :
          LET m == _load_metadata(idTable, "Sa", antibiotics, encoder, policy)
          IN  /\ call' = [fn |-> "load_driams_dataset",
                          args |-> [spectra_type |-> SpectraType(load_raw), i |-> 1]]
              /\ IF m.raised
                 THEN /\ pc' = "raised"
                      /\ ret' = Raised
                      /\ metadata' = NoFrame
                 ELSE /\ pc' = "loading"
                      /\ ret' = NoRet
                      /\ metadata' = m.value
    /\ spectra' = <<>>
    /\ UNCHANGED <<fs, idTable, spectraFiles, dataset>>

\* The `antibiotics` the scripts of the dataset loader pass: no name, one
\* bare name, or a list of two.
LoadStart ==
    \/ \E l \in {<<>>, <<"Ciprofloxacin", "Penicillin">>} : LoadStartOf(ListArg(l))
    \/ LoadStartOf(StrArg("Ciprofloxacin"))

\* The loop of driams.py:327-331 with a file that is not there passed over.
LoadSpectrumSkippingMissing ==
    /\ pc = "loading"
    /\ call.args.i <= Len(metadata.rows)
    /\ LET code == CodesOf(metadata)[call.args.i]
           area == call.args.spectra_type
       IN  spectra' = IF code \in spectraFiles[area]
                      THEN Append(spectra, MaldiTofSpectrum(area, code))
                      ELSE spectra
    /\ call' = [call EXCEPT !.args.i = @ + 1]
    /\ UNCHANGED <<fs, idTable, spectraFiles, pc, ret, metadata, dataset>>

\* The loop of driams.py:327-331 putting each spectrum in front.
LoadSpectrumPrepending ==
    /\ pc = "loading"
    /\ call.args.i <= Len(metadata.rows)
    /\ LET code == CodesOf(metadata)[call.args.i]
           area == call.args.spectra_type
       IN  IF code \in spectraFiles[area]
           THEN /\ spectra' = <<MaldiTofSpectrum(area, code)>> \o spectra
                /\ call' = [call EXCEPT !.args.i = @ + 1]
                /\ UNCHANGED <<pc, ret>>
           ELSE /\ pc' = "raised"
                /\ ret' = Raised
                /\ spectra' = <<>>
                /\ UNCHANGED call
    /\ UNCHANGED <<fs, idTable, spectraFiles, metadata, dataset>>

\* driams.py:327-331, one file: pd.read_csv raises when the file is not
\* there, and the call ends with that exception.
LoadSpectrum ==
    /\ pc = "loading"
    /\ call.args.i <= Len(metadata.rows)
    /\ LET code == CodesOf(metadata)[call.args.i]
           area == call.args.spectra_type
       IN  IF code \in spectraFiles[area]
           THEN /\ spectra' = Append(spectra, MaldiTofSpectrum(area, code))
                /\ call' = [call EXCEPT !.args.i = @ + 1]
                /\ UNCHANGED <<pc, ret>>
           ELSE /\ pc' = "raised"
                /\ ret' = Raised
                /\ spectra' = <<>>
                /\ UNCHANGED call
    /\ UNCHANGED <<fs, idTable, spectraFiles, metadata, dataset>>

\* driams.py:334: the pair (spectra, metadata).
LoadReturn ==
    /\ pc = "loading"
    /\ call.args.i > Len(metadata.rows)
    /\ pc' = "returned"
    /\ ret' = Returned([type |-> "tuple", X |-> spectra, y |-> metadata])
    /\ UNCHANGED <<fs, idTable, spectraFiles, call, metadata, spectra, dataset>>

\* DRIAMSDataset(X, y) on what the loader returned (driams.py:438), X being
\* the spectra or some first ones of them.
Construct ==
    /\ pc = "returned"
    /\ call.fn = "load_driams_dataset"
    /\ \E k \in 0..Len(ret.value.X) :
          LET d == DRIAMSDataset(SubSeq(ret.value.X, 1, k), ret.value.y)
          IN  /\ call' = [fn |-> "DRIAMSDataset", args |-> <<k, Len(ret.value.y.rows)>>]
              /\ ret' = d
              /\ dataset' = IF d.raised THEN NoDataset ELSE d.value
    /\ Finish(ret')
    /\ UNCHANGED <<fs, idTable, spectraFiles, metadata, spectra>>

Get_is_multitask ==
    /\ pc = "returned"
    /\ call.fn = "DRIAMSDataset"
    /\ call' = [fn |-> "is_multitask", args |-> <<>>]
    /\ ret' = Returned(is_multitask(dataset))
    /\ UNCHANGED <<fs, idTable, spectraFiles, pc, metadata, spectra, dataset>>

Get_n_samples ==
    /\ pc = "returned"
    /\ call.fn = "DRIAMSDataset"
    /\ call' = [fn |-> "n_samples", args |-> <<>>]
    /\ ret' = Returned(n_samples(dataset))
    /\ UNCHANGED <<fs, idTable, spectraFiles, pc, metadata, spectra, dataset>>

(***************************************************************************)
(* Specifications.                                                         *)
(***************************************************************************)

\* A site that passes every check, for the runs that are not about the site.
PlainSite ==
    [exists |-> TRUE, dirs |-> SiteDirNames,
     id |-> [files |-> EmptyDir,
             sub |-> [y \in {"2015"} |-> [n \in {"clean.csv"} |-> "table"]]]]

NoSpectra == [a \in Areas |-> {}]

InitRest ==
    /\ pc = "idle"
    /\ call = NoCall
    /\ ret = NoRet
    /\ metadata = NoFrame
    /\ spectra = <<>>
    /\ dataset = NoDataset

\* The explorer, on every site.
InitSite ==
    /\ fs \in SiteStates
    /\ idTable = <<>>
    /\ spectraFiles = NoSpectra
    /\ InitRest

NextSite ==
    \/ Call_is_site_valid
    \/ Call_available_years
    \/ Call_get_available_antibiotics
    \/ Call_available_antibiotics

SpecSite == InitSite /\ [][NextSite]_vars

\* The metadata loader, on every identifier table.
InitMeta ==
    /\ fs = PlainSite
    /\ idTable \in Tables(Species, RawTokens, RawTokens)
    /\ spectraFiles = NoSpectra
    /\ InitRest

NextMeta == Call_load_metadata

SpecMeta == InitMeta /\ [][NextMeta]_vars

\* The dataset loader and the dataset entity, on every set of spectrum files.
InitLoad ==
    /\ fs = PlainSite
    /\ idTable \in Tables(Species, {"S", "-"}, {"S"})
    /\ spectraFiles \in [Areas -> SUBSET Codes]
    /\ InitRest

NextLoad ==
    \/ LoadStart
    \/ LoadSpectrum
    \/ LoadReturn
    \/ Construct
    \/ Get_is_multitask
    \/ Get_n_samples

SpecLoad == InitLoad /\ [][NextLoad]_vars


(***************************************************************************)
(* Properties of the explorer (SpecSite).                                  *)
(***************************************************************************)

\* root/<site> has an immediate subdirectory named d.
HasDir(f, d) == f.exists /\ d \in f.dirs

\* The non-hidden files of one directory of the identifier area.
NonHidden(dir) == {n \in DOMAIN dir : ~IsHidden(n)}

\* C1: _is_site_valid returns False whenever root/<site> has no `id`
\* subdirectory, and whenever it has neither `preprocessed` nor `raw`; a
\* root/<site> that is not there has none of them.
C1_InvalidWithoutIdOrSpectra ==
    call.fn = "_is_site_valid" =>
        /\ ~HasDir(fs, "id") => ret.value = FALSE
        /\ (~HasDir(fs, "preprocessed") /\ ~HasDir(fs, "raw")) => ret.value = FALSE

\* C2: with `id` and a spectra area there, _is_site_valid returns False as
\* soon as one directory under `id` holds no non-hidden file, or two or more.
C2_OneFilePerDirectory ==
    (/\ call.fn = "_is_site_valid"
     /\ HasDir(fs, "id")
     /\ HasDir(fs, "preprocessed") \/ HasDir(fs, "raw")
     /\ \E y \in DOMAIN fs.id.sub : Cardinality(NonHidden(fs.id.sub[y])) # 1)
    => ret.value = FALSE

\* C8: available_years returns, sorted, the names of the subdirectories of
\* root/<site>/id, and the keys of available_antibiotics are those names.
C8_YearsAreIdSubdirectories ==
    /\ (call.fn = "available_years" /\ HasDir(fs, "id")) =>
           /\ ~ret.raised
           /\ ret.value = sorted(DOMAIN fs.id.sub)
    /\ (call.fn = "available_antibiotics" /\ HasDir(fs, "id") /\ ~ret.raised) =>
           DOMAIN ret.value = DOMAIN fs.id.sub

\* Some non-hidden file under `id` does not parse or has no `code` column.
HasBadIdFile(f) ==
    \E p \in Filenames(f.id) : FileAt(f.id, p) \in {"garbled", "nocode"}

\* C10: a site with a non-hidden file under `id` that does not parse, or has
\* no `code` column, gets False from _is_site_valid, and no exception.
C10_BadIdFileInvalidatesSite ==
    (call.fn = "_is_site_valid" /\ HasDir(fs, "id") /\ HasBadIdFile(fs)) =>
        /\ ~ret.raised
        /\ ret.value = FALSE

\* C10's case: the counts agree and a spectra area is there, one file is a
\* good table and another does not parse; the site was found invalid.
C10_Witness ==
    /\ call.fn = "_is_site_valid"
    /\ HasDir(fs, "id") /\ HasDir(fs, "raw")
    /\ NDirs(fs.id) = Cardinality(Filenames(fs.id))
    /\ \E p, q \in Filenames(fs.id) :
          FileAt(fs.id, p) = "garbled" /\ FileAt(fs.id, q) = "table"
    /\ ret.value = FALSE


(***************************************************************************)
(* Properties of the metadata loader (SpecMeta).                           *)
(***************************************************************************)

\* The value the returned table holds for antibiotic a of a row of the file.
LabelValue(r, a, encoder) ==
    IF encoder = "None" THEN ReadCell(r[a]) ELSE Encodings(ReadCell(r[a]))

\* The policy, said over the set of the antibiotics asked.
Retains(r, abx, encoder, policy) ==
    CASE policy = "remove_if_all_missing" ->
           \E a \in Range(abx) : LabelValue(r, a, encoder) # NaN
      [] policy = "remove_if_any_missing" ->
           \A a \in Range(abx) : LabelValue(r, a, encoder) # NaN
      [] OTHER -> TRUE

\* The codes of the rows of the file the policy retains, in file order.
RetainedCodes(file, species, abx, encoder, policy) ==
    LET kept == SelectSeq(file, LAMBDA r : /\ r.species = species
                                           /\ Retains(r, abx, encoder, policy))
    IN  [i \in 1..Len(kept) |-> kept[i].code]

\* C3: the rows _load_metadata returns are exactly the rows of the species
\* that the policy retains over the antibiotics asked, in their order.
C3_PolicyOverRequestedAntibiotics ==
    (call.fn = "_load_metadata" /\ ~ret.raised) =>
        CodesOf(ret.value) =
            RetainedCodes(idTable, call.args.species, AsList(call.args.antibiotics),
                          call.args.encoder, call.args.policy)

\* Every antibiotic asked holds, in row r, a token that is not missing in the
\* file and that the encoder maps to unknown.
OnlyUnknownTokens(r, abx) ==
    /\ abx # <<>>
    /\ \A a \in Range(abx) : ReadCell(r[a]) # NaN /\ Encodings(ReadCell(r[a])) = NaN

\* C4: under remove_if_all_missing a row of the species whose every label is
\* a token the encoder maps to unknown is absent from the result when the
\* encoder is given, and present when none is.
C4_EncoderBeforePolicy ==
    (/\ call.fn = "_load_metadata"
     /\ ~ret.raised
     /\ call.args.policy = "remove_if_all_missing") =>
        \A i \in 1..Len(idTable) :
            (/\ idTable[i].species = call.args.species
             /\ OnlyUnknownTokens(idTable[i], AsList(call.args.antibiotics))) =>
                (idTable[i].code \in Range(CodesOf(ret.value)))
                    = (call.args.encoder = "None")

(***************************************************************************)
(* Properties of the dataset loader and the dataset entity (SpecLoad).     *)
(***************************************************************************)

LoaderReturned == pc = "returned" /\ call.fn = "load_driams_dataset"

\* Some row of the loader's metadata has no file in the area it reads.
MissingFile ==
    \E i \in 1..Len(metadata.rows) :
        CodesOf(metadata)[i] \notin spectraFiles[call.args.spectra_type]

\* C5: what load_driams_dataset returns has as many spectra as metadata
\* rows, the i-th spectrum being the file named by the code of row i in the
\* area chosen.
C5_SpectraAlignedWithMetadata ==
    LoaderReturned =>
        /\ Len(ret.value.X) = Len(ret.value.y.rows)
        /\ \A i \in 1..Len(ret.value.y.rows) :
              ret.value.X[i] =
                  MaldiTofSpectrum(call.args.spectra_type, CodesOf(ret.value.y)[i])

\* C5's case: the loader has returned two spectra, for two different codes.
C5_Witness ==
    /\ LoaderReturned
    /\ Len(ret.value.X) = 2
    /\ ret.value.y.rows[1][1] # ret.value.y.rows[2][1]

\* C6: when a retained row has no spectrum file, load_driams_dataset never
\* returns: it ends raising, with no spectra and no table handed back; and a
\* table it does return is the pipeline's, with no row taken out.
C6_MissingFileAbortsLoad ==
    call.fn = "load_driams_dataset" =>
        /\ MissingFile => pc # "returned"
        /\ pc = "raised" => (ret = Raised /\ spectra = <<>>)
        /\ pc = "returned" => ret.value.y = metadata

\* C6's case: the first file was read, a later one is not there, and the
\* call has ended raising.
C6_Witness ==
    /\ call.fn = "load_driams_dataset"
    /\ pc = "raised"
    /\ MissingFile
    /\ call.args.i > 1

\* The label columns of a table: those outside the descriptive ones.
LabelColumns(y) == {c \in Range(y.cols) : c \notin Range(_metadata_columns)}

\* C7: is_multitask is true exactly when the table has more than one column
\* outside code, bruker_organism_best_match, species.
C7_MultitaskIffSeveralLabels ==
    call.fn = "is_multitask" =>
        ret.value = (Cardinality(LabelColumns(dataset.y)) > 1)

\* C9: load_driams_dataset returns a DRIAMSDataset, and DRIAMSDataset fails
\* on spectra whose number differs from the rows of the table.
C9_LoaderReturnsDataset ==
    /\ LoaderReturned => ret.value.type = "DRIAMSDataset"
    /\ (call.fn = "DRIAMSDataset" /\ call.args[1] # call.args[2]) => ret.raised


====
